---------------------------- MODULE Spec2Model ----------------------------
(***************************************************************************)
(* A model of the generic object pool of NikoMalik/sync_pool:              *)
(*   - poolDequeue (ring segment) and poolChain (src/pool_queue.go),       *)
(*   - Pool.Put / Pool.Get / getSlow / pin / pinSlow / poolCleanup         *)
(*     (src/unnamed/part_002).                                             *)
(*                                                                         *)
(* The type argument T of the Pool is a variable of the model: "int", a    *)
(* word-sized, non-interface type (as in the spec's scenarios), or "any",  *)
(* an interface type.  The ring and chain specifications and the pool      *)
(* specifications Spec, SpecSingle and SpecFair have T = "int"; SpecTyped  *)
(* has both.  A value of T is a natural number; 0 is the zero value of T   *)
(* (for "any": the nil interface), which is also what an empty slot holds, *)
(* because the code writes T directly into the slot's memory               *)
(* (pool_queue.go:71).                                                     *)
(*                                                                         *)
(* A nil-pointer dereference is a run-time panic.  Inside Put/Get it       *)
(* happens after pin(): while the goroutine's pin count (m.locks) is not   *)
(* zero the Go runtime turns it into a fatal "panic holding locks".  With  *)
(* the count at zero (the caller had called the exported ProcUnpin once    *)
(* too often) and outside the pinned sections it is an ordinary panic,     *)
(* which ends the process unless the caller recovers it; a recovered call  *)
(* leaves the pool as the panicking statement left it.  The model has one  *)
(* terminal flag, aborted, and records the source line in abortAt.         *)
(***************************************************************************)
EXTENDS Integers, Sequences, FiniteSets, TLC

\* ------------------------------------------------------------------ bounds
\* log2 of the capacity given to NewPoolDequeue in the ring specification
RingLog == 1
\* concurrent popTail threads in the ring specification
NConsumers == 2
\* operations started on the ring in the ring specification
MaxRingOps == 4
\* pushes onto the chain in the chain specification
MaxChainPush == 25
\* pops from the chain in the chain specification
MaxChainPop == 2
\* Put/Get calls started in the pool specification
MaxOps == 2
\* decay steps in the pool specification
MaxCleanups == 2
\* ProcPin/ProcUnpin calls made by the workers in the pool specification
MaxPinOps == 1
\* concurrent popTail threads on the chain in the chain race specification
NStealers == 2
\* calls started on the chain in the chain race specification
MaxRaceOps == 4
\* Put/Get calls of the single worker in the single-worker specification
MaxSoloOps == 11
\* log2 of the capacity of the ring whose indexes wrap around 2^32
WrapLog == 9
\* operations started on the ring whose indexes wrap around 2^32
MaxWrapOps == 3

\* --------------------------------------------------------- program constants
dequeueBits == 32
dequeueLimit == 1073741824
initSize == 8
\* NewPoolDequeue starts head and tail at 1<<dequeueBits - 500
startBack == 500
\* runtime.GOMAXPROCS(0): the length of the per-P local array
GOMAXPROCS == 2

\* The zero value of T, also the content of an empty slot.
Nil == 0

\* The type word of a non-nil interface value, as it lies in memory.
TypeWord == 0 - 3

\* ------------------------------------------------------------------ state
VARIABLES
    aborted,    \* the process has died of a panic or fault
    abortAt,    \* the source line of that panic
    \* the chain specification: a poolChain used through PoolDequeue
    tc,         \* the chain
    tcPushes,   \* PushHead calls made
    tcPops,     \* PopHead/PopTail calls made
    tcLast,     \* the last call and what it returned
    \* the chain race specification: the same chain, calls taken step by step
    cth,        \* per thread: pc, the elements d and d2 it loaded, its value
    cOps,       \* calls started
    \* the ring specification: one poolDequeue from NewPoolDequeue
    ring,       \* the dequeue
    rth,        \* per thread: pc, the headTail word it loaded, its value
    rOps,       \* operations started
    rNext,      \* the next distinct value to push
    rPushed,    \* values whose pushHead returned true
    rPopped,    \* values returned by successful pops, in order
    \* the pool specifications: one Pool[T] and the registry
    pool,       \* local, localSize, victim, victimSize of the Pool
    New,        \* the factory: "nil" (none), "zero" or "make"
    T,          \* the type argument of the Pool: "int" or "any"
    nPins,      \* ProcPin/ProcUnpin calls made
    allPools,   \* registry: addresses registered with a primary cache
    oldPools,   \* registry: addresses that may have a victim cache
    mu,         \* allPoolsMu: the worker holding it, or NoOwner
    corrupt,    \* poolCleanup has written outside the object it was given
    wk,         \* per worker (P): pc, call, argument/result, pin count, ...
    nextVal,    \* the next distinct value to Put
    nOps,       \* Put/Get calls started
    nCleanups,  \* poolCleanup calls made
    hist        \* calls in the order they returned (or panicked)

raceVars == <<cth, cOps>>
chainVars == <<tc, tcPushes, tcPops, tcLast, raceVars>>
ringVars == <<ring, rth, rOps, rNext, rPushed, rPopped>>
poolVars == <<pool, New, T, nPins, allPools, oldPools, mu, corrupt, wk, nextVal, nOps,
              nCleanups, hist>>
vars == <<aborted, abortAt, chainVars, ringVars, poolVars>>

\* isNil (part_002:33-37) is reflect.ValueOf(t).IsZero().  For an interface T
\* and a nil t, reflect.ValueOf returns the zero reflect.Value, and IsZero on
\* it panics (line 36): isNilPanics says when.  Otherwise isNil returns, and
\* isNil(x) is what it returns.  Wherever the code calls isNil on a value that
\* can be nil with T an interface type, the model tests isNilPanics first.
isNilPanics(x) == T = "any" /\ x = Nil
isNil(x) == x = Nil

\* ----------------------------------------------------- 32-bit index words
\* A uint32 is kept as two 16-bit limbs <<hi, lo>>, so that arithmetic is
\* modulo 2^32 exactly as in the code.
Limb == 2 ^ (dequeueBits \div 2)

U32Add(a, n) ==
    LET lo == a[2] + (n % Limb)
        hi == a[1] + (n \div Limb) + (lo \div Limb)
    IN  <<hi % Limb, lo % Limb>>

U32Sub(a, n) ==
    LET lo == a[2] - (n % Limb)
        borrow == IF lo < 0 THEN 1 ELSE 0
        hi == a[1] - (n \div Limb) - borrow
    IN  <<hi % Limb, lo % Limb>>

\* a & (n - 1) for a power of two n <= 2^16: the low limb decides.
U32Mask(a, n) == a[2] % n

\* The 64-bit headTail word is the concatenation of the two index words.
pack(head, tail) == <<head[1], head[2], tail[1], tail[2]>>

unpack(ptrs) == [head |-> <<ptrs[1], ptrs[2]>>, tail |-> <<ptrs[3], ptrs[4]>>]

\* headTail.Add(1 << dequeueBits): the carry out of bit 63 is dropped.
AddHead(ptrs) == pack(U32Add(unpack(ptrs).head, 1), unpack(ptrs).tail)

\* a - b modulo 2^32 for two index words.
U32Diff(a, b) ==
    LET lo == a[2] - b[2]
        borrow == IF lo < 0 THEN 1 ELSE 0
        hi == a[1] - b[1] - borrow
    IN  <<hi % Limb, lo % Limb>>

\* Number of values between tail and head, (head - tail) mod 2^32; every
\* difference of 2^16 or more is reported as 2^16, above any capacity here.
Span(ptrs) ==
    LET d == U32Diff(unpack(ptrs).head, unpack(ptrs).tail)
    IN  IF d[1] = 0 THEN d[2] ELSE Limb

\* ---------------------------------------------------------- poolDequeue
\* A dequeue is [headTail, vals]; vals[i + 1] is slot i.
EmptyVals(n) == [i \in 1..n |-> Nil]

NewDequeueAt(n, start) == [headTail |-> pack(start, start), vals |-> EmptyVals(n)]

\* NewPoolDequeue(n): indexes close to wrapping around.
NewPoolDequeue(n) == NewDequeueAt(n, U32Sub(<<0, 0>>, startBack))

SlotOf(d, idx) == U32Mask(idx, Len(d.vals)) + 1

IsFull(d, ptrs) ==
    U32Add(unpack(ptrs).tail, Len(d.vals)) = unpack(ptrs).head

\* A pop that never takes the ring for empty.
NeverEmpty(ptrs) == FALSE

\* popHead line 89, popTail line 119: tail == head.
IsEmpty(ptrs) == unpack(ptrs).tail = unpack(ptrs).head

\* A pushHead that takes every slot for empty.
slotNeverBusy(d, slot) == FALSE

\* pushHead, line 65: slot.Load() != nil, the slot still holds a value.
slotBusy(d, slot) == d.vals[slot] # Nil

\* The result of a call: the dequeue afterwards, the value and flag returned,
\* and the source line of a panic ("" when the call returns).
Res(d, val, ok, panic) == [d |-> d, val |-> val, ok |-> ok, panic |-> panic]

\* pushHead, line 71: *(*T)(unsafe.Pointer(slot)) = val writes a T at the
\* address of the slot, which is one word (atomic.Pointer[T]).  A word-sized
\* T fills the slot.  An interface T is two words (StoreWide): the type word
\* goes into the slot and the data word into the slot after it, or, from the
\* last slot, into the memory after vals (Spills).
StoreWide(vals, slot, val) ==
    [i \in 1..Len(vals) |-> IF i = slot THEN TypeWord
                            ELSE IF i = slot + 1 THEN val
                            ELSE vals[i]]

Spills(vals, slot) == slot = Len(vals)

\* poolDequeue.pushHead, run without interference.  A store that spills is
\* reported as "pool_queue.go:71", with the dequeue as the store leaves it.
dqPushHead(d, val) ==
    LET ptrs == d.headTail
        slot == SlotOf(d, unpack(ptrs).head)
    IN  IF IsFull(d, ptrs) THEN Res(d, Nil, FALSE, "")
        ELSE IF slotBusy(d, slot) THEN Res(d, Nil, FALSE, "")
        ELSE IF isNilPanics(val) THEN Res(d, Nil, FALSE, "part_002:36")
        ELSE IF isNil(val) THEN Res(d, Nil, FALSE, "pool_queue.go:69")
        ELSE IF T = "any"
        THEN Res([d EXCEPT !.vals = StoreWide(d.vals, slot, val),
                           !.headTail = AddHead(ptrs)],
                 Nil, TRUE, IF Spills(d.vals, slot) THEN "pool_queue.go:71" ELSE "")
        ELSE Res([d EXCEPT !.vals[slot] = val, !.headTail = AddHead(ptrs)],
                 Nil, TRUE, "")

\* popHead line 101, popTail line 131: val := *(*T)(unsafe.Pointer(slot)) reads
\* a T at the address of the slot.  A word-sized T is the slot's word.  An
\* interface T is two words, (type, data): the slot's word and the word after
\* it, as pushHead stored them.  With a nil type word the value read is the
\* nil interface, whatever the second word holds.  WideValue is the value of
\* an interface read: nil, or what the data word stands for.
WideValue(vals, slot) ==
    IF vals[slot] = Nil THEN Nil ELSE vals[slot + 1]

\* An interface read that gives no value of the program's: its second word
\* lies after vals (the last slot), its type word is not a type (the data
\* word of the slot before), or its data word is the type word of the slot
\* after.  The outcome is a fault or a value no Put gave.
WideWild(vals, slot) ==
    /\ vals[slot] # Nil
    /\ \/ slot = Len(vals)
       \/ vals[slot] # TypeWord
       \/ vals[slot + 1] = TypeWord

\* poolDequeue.popHead, run without interference: the CAS succeeds at once.
\* Line 105 clears the slot's one word: of an interface T the type word goes
\* and the data word stays.  isNil of line 102 panics on the nil interface
\* (part_002:36) and on an interface whose data pointer is nil.  A read that
\* is WideWild is reported as "pool_queue.go:101", with the dequeue as the
\* call leaves it when it goes on.
dqPopHead(d) ==
    LET ptrs == d.headTail
        head2 == U32Sub(unpack(ptrs).head, 1)
        slot == SlotOf(d, head2)
        val == IF T = "any" THEN WideValue(d.vals, slot) ELSE d.vals[slot]
        d2 == [d EXCEPT !.headTail = pack(head2, unpack(ptrs).tail)]
    IN  IF IsEmpty(ptrs) THEN Res(d, Nil, FALSE, "pool_queue.go:90")
        ELSE IF T = "any" /\ WideWild(d.vals, slot)
        THEN Res([d2 EXCEPT !.vals[slot] = Nil], Nil, TRUE, "pool_queue.go:101")
        ELSE IF isNilPanics(val) THEN Res(d2, Nil, FALSE, "part_002:36")
        ELSE IF isNil(val) THEN Res(d2, Nil, FALSE, "pool_queue.go:103")
        ELSE Res([d2 EXCEPT !.vals[slot] = Nil], val, TRUE, "")

\* A popTail that finds every dequeue empty.
dqPopTailBlind(d) == Res(d, Nil, FALSE, "")

\* poolDequeue.popTail, run without interference.  After the CAS the code
\* reads the value (line 131, like popHead's line 101; a WideWild read is
\* reported as "pool_queue.go:131"), then sets slot = nil and calls
\* slot.Store(nil), a nil dereference: the tail has moved, the slot still
\* holds the value, and the call panics.
dqPopTail(d) ==
    LET ptrs == d.headTail
        tail == unpack(ptrs).tail
        slot == SlotOf(d, tail)
        val == IF T = "any" THEN WideValue(d.vals, slot) ELSE d.vals[slot]
        d2 == [d EXCEPT !.headTail = pack(unpack(ptrs).head, U32Add(tail, 1))]
    IN  IF IsEmpty(ptrs) THEN Res(d, Nil, FALSE, "")
        ELSE IF T = "any" /\ WideWild(d.vals, slot)
        THEN Res(d2, Nil, FALSE, "pool_queue.go:131")
        ELSE IF isNilPanics(val) THEN Res(d2, Nil, FALSE, "part_002:36")
        ELSE IF isNil(val) THEN Res(d2, Nil, FALSE, "pool_queue.go:133")
        ELSE Res(d2, val, FALSE, "pool_queue.go:136")

\* ------------------------------------------------------------- poolChain
\* A chain is [head, tail, elts]: elts is the heap of its poolChainElt, an
\* element's address is its index, 0 is the nil pointer.
NoElt == 0

EmptyChain == [head |-> NoElt, tail |-> NoElt, elts |-> <<>>]

NewElt(n, prev) == [dq |-> NewDequeueAt(n, <<0, 0>>), next |-> NoElt, prev |-> prev]

\* newSize of poolChain.pushHead
GrowSize(n) == IF 2 * n >= dequeueLimit THEN dequeueLimit ELSE 2 * n

CRes(c, val, ok, panic) == [c |-> c, val |-> val, ok |-> ok, panic |-> panic]

\* poolChain.pushHead, run without interference.
chPushHead(c, val) ==
    LET c1 == IF c.head = NoElt
              THEN [head |-> 1, tail |-> 1, elts |-> <<NewElt(initSize, NoElt)>>]
              ELSE c
        d  == c1.head
        r  == dqPushHead(c1.elts[d].dq, val)
        n2 == GrowSize(Len(c1.elts[d].dq.vals))
        d2 == Len(c1.elts) + 1
        r2 == dqPushHead(NewElt(n2, d).dq, val)
        grown == [head |-> d2,
                  tail |-> c1.tail,
                  elts |-> Append([c1.elts EXCEPT ![d].next = d2],
                                  [NewElt(n2, d) EXCEPT !.dq = r2.d])]
    IN  IF r.panic # "" THEN CRes([c1 EXCEPT !.elts[d].dq = r.d], Nil, FALSE, r.panic)
        ELSE IF r.ok THEN CRes([c1 EXCEPT !.elts[d].dq = r.d], Nil, TRUE, "")
        ELSE CRes(grown, Nil, r2.panic = "", r2.panic)

\* poolChain.popHead from element d downwards.
RECURSIVE chPopHeadFrom(_, _)
chPopHeadFrom(c, d) ==
    IF d = NoElt THEN CRes(c, Nil, FALSE, "")
    ELSE LET r == dqPopHead(c.elts[d].dq)
         IN  IF r.panic # "" \/ r.ok
             THEN CRes([c EXCEPT !.elts[d].dq = r.d], r.val, r.ok, r.panic)
             ELSE chPopHeadFrom(c, c.elts[d].prev)

chPopHead(c) == chPopHeadFrom(c, c.head)

\* poolChain.popTail from element d upwards, run without interference.
RECURSIVE chPopTailFrom(_, _)
chPopTailFrom(c, d) ==
    LET d2 == c.elts[d].next
        r  == dqPopTail(c.elts[d].dq)
        c1 == [c EXCEPT !.elts[d].dq = r.d]
        c2 == IF c1.tail = d
              THEN [c1 EXCEPT !.tail = d2, !.elts[d2].prev = NoElt]
              ELSE c1
    IN  IF r.panic # "" \/ r.ok THEN CRes(c1, r.val, r.ok, r.panic)
        ELSE IF d2 = NoElt THEN CRes(c1, Nil, FALSE, "")
        ELSE chPopTailFrom(c2, d2)

chPopTail(c) ==
    IF c.tail = NoElt THEN CRes(c, Nil, FALSE, "") ELSE chPopTailFrom(c, c.tail)

\* The one element of a one-element set: in {F(x) : x \in {e}}, x is the
\* value of e, computed once.
Only(S) == CHOOSE x \in S : TRUE

\* The chain c after pushHead(lo), ..., pushHead(hi).
RECURSIVE PushChain(_, _, _)
PushChain(c, lo, hi) ==
    IF lo > hi THEN c
    ELSE Only({PushChain(c1, lo + 1, hi) : c1 \in {chPushHead(c, lo).c}})

\* The chain c after n popTail calls whose panics the callers recovered: each
\* call leaves the chain as it was when the call ended.
RECURSIVE DropTail(_, _)
DropTail(c, n) ==
    IF n = 0 THEN c
    ELSE Only({DropTail(c1, n - 1) : c1 \in {chPopTail(c).c}})

\* Capacities of the chain's linked segments, oldest first.
RECURSIVE CapsFrom(_, _)
CapsFrom(c, d) ==
    IF d = NoElt THEN <<>>
    ELSE <<Len(c.elts[d].dq.vals)>> \o CapsFrom(c, c.elts[d].next)

ChainCaps(c) == CapsFrom(c, c.tail)

\* Values a dequeue holds between tail and head.
DqValues(d) == {d.vals[i] : i \in 1..Len(d.vals)} \ {Nil}

ChainValues(c) == UNION {DqValues(c.elts[i].dq) : i \in 1..Len(c.elts)}

\* ================================================================ actions

\* A panic at source line `at` ends the process; "" means no panic.
Abort(at) == aborted' = (at # "") /\ abortAt' = at

NoCall == [op |-> "none", val |-> Nil, ok |-> FALSE]

\* What a pushHead on the ring returned: n is (head - tail) as loaded, racing
\* says a popTail had claimed a slot and not yet finished with it.
PushCall(val, ok, n, racing) ==
    [op |-> "pushHead", val |-> val, ok |-> ok, n |-> n, racing |-> racing]

\* ------------------------------------------------- the ring specification
RingCap == 2 ^ RingLog
Producer == 0
Consumers == 1..NConsumers
Threads == {Producer} \cup Consumers

IdleThread == [pc |-> "idle", ptrs |-> pack(<<0, 0>>, <<0, 0>>), val |-> Nil,
               last |-> NoCall]

Claiming == \E t \in Consumers : rth[t].pc \in {"popt_read", "popt_clear"}

PushReturned(ok, racing) ==
    [rth EXCEPT ![Producer].pc = "idle",
                ![Producer].last = PushCall(rth[Producer].val, ok,
                                            Span(rth[Producer].ptrs), racing)]

InitRingVars ==
    /\ ring = NewPoolDequeue(RingCap)
    /\ rth = [t \in Threads |-> IdleThread]
    /\ rOps = 0
    /\ rNext = 1
    /\ rPushed = {}
    /\ rPopped = <<>>

IdleRingVars ==
    /\ ring = NewPoolDequeue(1)
    /\ rth = [t \in {Producer} |-> IdleThread]
    /\ rOps = 0
    /\ rNext = 1
    /\ rPushed = {}
    /\ rPopped = <<>>

\* A compare-and-swap that would succeed whatever the word holds.
casBlind(cur, old) == TRUE

\* headTail.CompareAndSwap(ptrs, ptrs2) succeeds when the word still is ptrs.
casSucceeds(cur, old) == cur = old

Returned(t, op, val, ok) ==
    [rth EXCEPT ![t].pc = "idle", ![t].last = [op |-> op, val |-> val, ok |-> ok]]

\* PushHead(val) is called by the producer: val is a fresh value or zero.
RingCallPush(val, budget) ==
    /\ ~aborted /\ rth[Producer].pc = "idle" /\ rOps < budget
    /\ rth' = [rth EXCEPT ![Producer].pc = "push_load", ![Producer].val = val]
    /\ rOps' = rOps + 1
    /\ rNext' = IF val = Nil THEN rNext ELSE rNext + 1
    /\ UNCHANGED <<ring, rPushed, rPopped, aborted, abortAt, chainVars, poolVars>>

\* pushHead, lines 57-62: load headTail, return false when full.
RingPushLoad ==
    /\ ~aborted /\ rth[Producer].pc = "push_load"
    /\ rth' = IF IsFull(ring, ring.headTail)
              THEN [rth EXCEPT ![Producer].pc = "idle",
                               ![Producer].ptrs = ring.headTail,
                               ![Producer].last =
                                   PushCall(rth[Producer].val, FALSE,
                                            Span(ring.headTail), FALSE)]
              ELSE [rth EXCEPT ![Producer].pc = "push_slot",
                               ![Producer].ptrs = ring.headTail]
    /\ UNCHANGED <<ring, rOps, rNext, rPushed, rPopped, aborted, abortAt, chainVars, poolVars>>

\* pushHead, lines 64-71: the slot must be empty; a zero val is replaced by
\* *dequeueNil(nil), a nil dereference; else the value is written.
RingPushSlot ==
    /\ ~aborted /\ rth[Producer].pc = "push_slot"
    /\ LET slot == SlotOf(ring, unpack(rth[Producer].ptrs).head)
           val == rth[Producer].val
       IN  IF slotBusy(ring, slot)
           THEN /\ rth' = PushReturned(FALSE, Claiming)
                /\ UNCHANGED <<ring, aborted, abortAt>>
           ELSE IF isNil(val)
           THEN /\ Abort("pool_queue.go:69")
                /\ UNCHANGED <<ring, rth>>
           ELSE /\ ring' = [ring EXCEPT !.vals[slot] = val]
                /\ rth' = [rth EXCEPT ![Producer].pc = "push_add"]
                /\ UNCHANGED <<aborted, abortAt>>
    /\ UNCHANGED <<rOps, rNext, rPushed, rPopped, chainVars, poolVars>>

\* pushHead, lines 75-76: publish by adding 1 to the head half.
RingPushAdd ==
    /\ ~aborted /\ rth[Producer].pc = "push_add"
    /\ ring' = [ring EXCEPT !.headTail = AddHead(ring.headTail)]
    /\ rth' = PushReturned(TRUE, FALSE)
    /\ rPushed' = rPushed \cup {rth[Producer].val}
    /\ UNCHANGED <<rOps, rNext, rPopped, aborted, abortAt, chainVars, poolVars>>

RingCallPopHead(budget) ==
    /\ ~aborted /\ rth[Producer].pc = "idle" /\ rOps < budget
    /\ rth' = [rth EXCEPT ![Producer].pc = "poph_load"]
    /\ rOps' = rOps + 1
    /\ UNCHANGED <<ring, rNext, rPushed, rPopped, aborted, abortAt, chainVars, poolVars>>

\* popHead, lines 86-91: load; on empty `return *zero, false` dereferences
\* the nil *T.
RingPopHeadLoad ==
    /\ ~aborted /\ rth[Producer].pc = "poph_load"
    /\ IF IsEmpty(ring.headTail)
       THEN Abort("pool_queue.go:90") /\ UNCHANGED rth
       ELSE /\ rth' = [rth EXCEPT ![Producer].pc = "poph_cas",
                                  ![Producer].ptrs = ring.headTail]
            /\ UNCHANGED <<aborted, abortAt>>
    /\ UNCHANGED <<ring, rOps, rNext, rPushed, rPopped, chainVars, poolVars>>

\* popHead, lines 93-98: CAS head-1; retry on failure.
RingPopHeadCAS ==
    /\ ~aborted /\ rth[Producer].pc = "poph_cas"
    /\ LET ptrs == rth[Producer].ptrs
           ptrs2 == pack(U32Sub(unpack(ptrs).head, 1), unpack(ptrs).tail)
       IN  IF casSucceeds(ring.headTail, ptrs)
           THEN /\ ring' = [ring EXCEPT !.headTail = ptrs2]
                /\ rth' = [rth EXCEPT ![Producer].pc = "poph_read",
                                      ![Producer].ptrs = ptrs2]
           ELSE /\ rth' = [rth EXCEPT ![Producer].pc = "poph_load"]
                /\ UNCHANGED ring
    /\ UNCHANGED <<rOps, rNext, rPushed, rPopped, aborted, abortAt, chainVars, poolVars>>

\* popHead, lines 101-106: read the slot, clear it, return.
RingPopHeadRead ==
    /\ ~aborted /\ rth[Producer].pc = "poph_read"
    /\ LET slot == SlotOf(ring, unpack(rth[Producer].ptrs).head)
           val == ring.vals[slot]
       IN  IF isNil(val)
           THEN Abort("pool_queue.go:103") /\ UNCHANGED <<ring, rth, rPopped>>
           ELSE /\ ring' = [ring EXCEPT !.vals[slot] = Nil]
                /\ rth' = Returned(Producer, "popHead", val, TRUE)
                /\ rPopped' = Append(rPopped, val)
                /\ UNCHANGED <<aborted, abortAt>>
    /\ UNCHANGED <<rOps, rNext, rPushed, chainVars, poolVars>>

RingCallPopTail(t, budget) ==
    /\ ~aborted /\ rth[t].pc = "idle" /\ rOps < budget
    /\ rth' = [rth EXCEPT ![t].pc = "popt_load"]
    /\ rOps' = rOps + 1
    /\ UNCHANGED <<ring, rNext, rPushed, rPopped, aborted, abortAt, chainVars, poolVars>>

\* popTail, lines 116-121: load; empty returns (zero, false).
RingPopTailLoad(t) ==
    /\ ~aborted /\ rth[t].pc = "popt_load"
    /\ rth' = IF IsEmpty(ring.headTail)
              THEN Returned(t, "popTail", Nil, FALSE)
              ELSE [rth EXCEPT ![t].pc = "popt_cas", ![t].ptrs = ring.headTail]
    /\ UNCHANGED <<ring, rOps, rNext, rPushed, rPopped, aborted, abortAt, chainVars, poolVars>>

\* popTail, lines 123-128: CAS tail+1; retry on failure.
RingPopTailCAS(t) ==
    /\ ~aborted /\ rth[t].pc = "popt_cas"
    /\ LET ptrs == rth[t].ptrs
           ptrs2 == pack(unpack(ptrs).head, U32Add(unpack(ptrs).tail, 1))
       IN  IF casSucceeds(ring.headTail, ptrs)
           THEN /\ ring' = [ring EXCEPT !.headTail = ptrs2]
                /\ rth' = [rth EXCEPT ![t].pc = "popt_read"]
           ELSE /\ rth' = [rth EXCEPT ![t].pc = "popt_load"]
                /\ UNCHANGED ring
    /\ UNCHANGED <<rOps, rNext, rPushed, rPopped, aborted, abortAt, chainVars, poolVars>>

\* popTail, lines 131-134: read the value at the claimed tail slot.
RingPopTailRead(t) ==
    /\ ~aborted /\ rth[t].pc = "popt_read"
    /\ LET val == ring.vals[SlotOf(ring, unpack(rth[t].ptrs).tail)]
       IN  IF isNil(val)
           THEN Abort("pool_queue.go:133") /\ UNCHANGED rth
           ELSE /\ rth' = [rth EXCEPT ![t].pc = "popt_clear", ![t].val = val]
                /\ UNCHANGED <<aborted, abortAt>>
    /\ UNCHANGED <<ring, rOps, rNext, rPushed, rPopped, chainVars, poolVars>>

\* popTail, lines 135-137: `slot = nil; slot.Store(nil)` stores through a nil
\* pointer, so the call panics before it clears the slot or returns.
RingPopTailClear(t) ==
    /\ ~aborted /\ rth[t].pc = "popt_clear"
    /\ Abort("pool_queue.go:136")
    /\ UNCHANGED <<ring, rth, rOps, rNext, rPushed, rPopped, chainVars, poolVars>>

\* The calls started on the ring, at most budget of them.
RingCalls(budget) ==
    \/ \E val \in {rNext, Nil} : RingCallPush(val, budget)
    \/ RingCallPopHead(budget)
    \/ \E t \in Threads : RingCallPopTail(t, budget)

\* The steps of the calls in progress; a PopTail that took a value ends the
\* process with the panic of line 136.
RingSteps ==
    \/ RingPushLoad
    \/ RingPushSlot
    \/ RingPushAdd
    \/ RingPopHeadLoad
    \/ RingPopHeadCAS
    \/ RingPopHeadRead
    \/ \E t \in Threads : RingPopTailLoad(t)
    \/ \E t \in Threads : RingPopTailCAS(t)
    \/ \E t \in Threads : RingPopTailRead(t)
    \/ \E t \in Threads : RingPopTailClear(t)

NextRing ==
    \/ RingCalls(MaxRingOps)
    \/ RingSteps

\* ------------------------------------- a ring whose indexes wrap around
\* NewPoolDequeue starts startBack below 2^32, so head passes 2^32 with the
\* startBack-th push, on a ring that has room for that many values.
WrapCap == 2 ^ WrapLog

\* The ring d after PushHead(lo), ..., PushHead(hi).
RECURSIVE PushRange(_, _, _)
PushRange(d, lo, hi) ==
    IF lo > hi THEN d
    ELSE IF lo = hi THEN dqPushHead(d, lo).d
    ELSE LET mid == (lo + hi) \div 2
         IN  Only({PushRange(half, mid + 1, hi) : half \in {PushRange(d, lo, mid)}})

\* The ring after PushHead(1), ..., PushHead(k) on NewPoolDequeue(n).
PushedRing(n, k) == PushRange(NewPoolDequeue(n), 1, k)

\* The ring d after n PopTail calls, each of which took a value and ended in
\* the panic of line 136, recovered by its caller: the tail has moved n times.
RECURSIVE DropRange(_, _)
DropRange(d, n) ==
    IF n <= 0 THEN d
    ELSE IF n = 1 THEN dqPopTail(d).d
    ELSE Only({DropRange(half, n - (n \div 2)) : half \in {DropRange(d, n \div 2)}})

\* Pushes and recovered PopTail calls made before the run starts: head is
\* about to pass 2^32; the ring is about to be full, head past 2^32; head has
\* passed 2^32 and tail is about to.
WrapStarts == {<<startBack - 1, 0>>, <<WrapCap - 1, 0>>,
               <<startBack, startBack - 1>>}

InitRingWrapVars ==
    /\ \E s \in WrapStarts :
          /\ ring = DropRange(PushedRing(WrapCap, s[1]), s[2])
          /\ rNext = s[1] + 1
          /\ rPushed = 1..s[1]
    /\ rth = [t \in Threads |-> IdleThread]
    /\ rOps = 0
    /\ rPopped = <<>>

\* popTail, lines 135-137, in a caller that recovers the panic of line 136
\* (PoolDequeue is called outside any pinned section): the call is over
\* without a result, the tail stays advanced and the slot keeps its value.
RingPopTailRecover(t) ==
    /\ ~aborted /\ rth[t].pc = "popt_clear"
    /\ rth' = [rth EXCEPT ![t].pc = "idle", ![t].val = Nil,
                          ![t].last = [op |-> "popTail", val |-> Nil, ok |-> FALSE,
                                       panic |-> "pool_queue.go:136"]]
    /\ UNCHANGED <<ring, rOps, rNext, rPushed, rPopped, aborted, abortAt, chainVars, poolVars>>

\* The ring's calls, with callers that recover PopTail's panic or do not.
NextRingWrap ==
    \/ RingCalls(MaxWrapOps)
    \/ RingSteps
    \/ \E t \in Threads : RingPopTailRecover(t)

\* ------------------------------------------------ the chain specification
\* The threads of the chain race: the owner and the stealers.
Owner == 0
Stealers == 1..NStealers
ChainThreads == {Owner} \cup Stealers

\* A thread of the chain race: where it is in its call, the elements d and d2
\* of poolChain.pushHead/popTail, the value it pushes, whether d was c.tail when
\* the call loaded d.next, and its last call with the line of its panic.
IdleChainThread == [pc |-> "idle", d |-> NoElt, d2 |-> NoElt, val |-> Nil,
                    wasTail |-> FALSE, last |-> NoCall, panic |-> ""]

InitChainVars ==
    /\ tc = EmptyChain
    /\ tcPushes = 0
    /\ tcPops = 0
    /\ tcLast = NoCall
    /\ cth = [t \in ChainThreads |-> IdleChainThread]
    /\ cOps = 0

\* PoolDequeue.PushHead on a chain (lines 260-263): a fresh value or zero.
ChainPushHead(val) ==
    /\ ~aborted /\ tcPushes < MaxChainPush
    /\ LET r == chPushHead(tc, val)
       IN  /\ tc' = r.c
           /\ Abort(r.panic)
           /\ tcLast' = [op |-> "pushHead", val |-> val, ok |-> r.ok]
    /\ tcPushes' = tcPushes + 1
    /\ UNCHANGED <<tcPops, raceVars, ringVars, poolVars>>

\* PoolDequeue.PopHead on a chain (lines 265-267).
ChainPopHead ==
    /\ ~aborted /\ tcPops < MaxChainPop
    /\ LET r == chPopHead(tc)
       IN  /\ tc' = r.c
           /\ Abort(r.panic)
           /\ tcLast' = [op |-> "popHead", val |-> r.val, ok |-> r.ok]
    /\ tcPops' = tcPops + 1
    /\ UNCHANGED <<tcPushes, raceVars, ringVars, poolVars>>

\* PoolDequeue.PopTail on a chain (lines 269-271).
ChainPopTail ==
    /\ ~aborted /\ tcPops < MaxChainPop
    /\ LET r == chPopTail(tc)
       IN  /\ tc' = r.c
           /\ Abort(r.panic)
           /\ tcLast' = [op |-> "popTail", val |-> r.val, ok |-> r.ok]
    /\ tcPops' = tcPops + 1
    /\ UNCHANGED <<tcPushes, raceVars, ringVars, poolVars>>

NextChain ==
    \/ \E val \in {tcPushes + 1, Nil} : ChainPushHead(val)
    \/ ChainPopHead
    \/ ChainPopTail

\* ------------------------------------------------------- the chain race
\* One owner and NStealers stealers call a poolChain through PoolDequeue,
\* outside any pinned section.  Each load, store and CAS of c.tail, d.next and
\* d.prev is a step of its own; a call on one poolDequeue is one step, taken
\* where its CAS or its head add takes effect.  A popTail that takes a value
\* panics at line 136 in its caller's goroutine: the caller recovers, the call
\* is over without a result, and the chain stays as the call left it.
ChainReturned(t, op, val, ok, panic) ==
    [cth EXCEPT ![t].pc = "idle", ![t].d = NoElt, ![t].d2 = NoElt,
                ![t].val = Nil, ![t].panic = panic,
                ![t].last = [op |-> op, val |-> val, ok |-> ok]]

\* Pushes and recovered popTail calls made on the chain before the race.
RaceStarts == {<<0, 0>>, <<initSize, initSize - 1>>, <<initSize + 1, initSize>>}

InitRaceVars ==
    /\ \E s \in RaceStarts :
          /\ tc = DropTail(PushChain(EmptyChain, 1, s[1]), s[2])
          /\ tcPushes = s[1]
    /\ tcPops = 0
    /\ tcLast = NoCall
    /\ cth = [t \in ChainThreads |-> IdleChainThread]
    /\ cOps = 0

\* The owner calls PushHead(val) (lines 260-263).
RaceCallPush(val) ==
    /\ cth[Owner].pc = "idle" /\ cOps < MaxRaceOps
    /\ cth' = [cth EXCEPT ![Owner].pc = "push_head", ![Owner].val = val]
    /\ tcPushes' = tcPushes + 1
    /\ cOps' = cOps + 1
    /\ UNCHANGED <<tc, tcPops, tcLast, aborted, abortAt, ringVars, poolVars>>

\* pushHead, lines 159-166: d := c.head; the first call allocates the first
\* element and stores it to c.head and c.tail.
RacePushLoad ==
    /\ cth[Owner].pc = "push_head"
    /\ tc' = IF tc.head = NoElt
             THEN [head |-> 1, tail |-> 1, elts |-> <<NewElt(initSize, NoElt)>>]
             ELSE tc
    /\ cth' = [cth EXCEPT ![Owner].pc = "push_try", ![Owner].d = tc'.head]
    /\ UNCHANGED <<tcPushes, tcPops, tcLast, cOps, aborted, abortAt, ringVars, poolVars>>

\* pushHead, lines 167-169: d.pushHead(val).
RacePushTry ==
    /\ cth[Owner].pc = "push_try"
    /\ LET d == cth[Owner].d
           r == dqPushHead(tc.elts[d].dq, cth[Owner].val)
       IN  /\ tc' = [tc EXCEPT !.elts[d].dq = r.d]
           /\ cth' = IF r.panic # "" \/ r.ok
                     THEN ChainReturned(Owner, "pushHead", cth[Owner].val, r.ok, r.panic)
                     ELSE [cth EXCEPT ![Owner].pc = "push_grow"]
    /\ UNCHANGED <<tcPushes, tcPops, tcLast, cOps, aborted, abortAt, ringVars, poolVars>>

\* pushHead, lines 171-178: allocate d2 with d2.prev = d, and c.head = d2.
RacePushGrow ==
    /\ cth[Owner].pc = "push_grow"
    /\ LET d == cth[Owner].d
           d2 == Len(tc.elts) + 1
       IN  /\ tc' = [tc EXCEPT !.head = d2,
                               !.elts = Append(@, NewElt(GrowSize(Len(tc.elts[d].dq.vals)), d))]
           /\ cth' = [cth EXCEPT ![Owner].pc = "push_link", ![Owner].d2 = d2]
    /\ UNCHANGED <<tcPushes, tcPops, tcLast, cOps, aborted, abortAt, ringVars, poolVars>>

\* pushHead, line 179: d.next.Store(d2).
RacePushLink ==
    /\ cth[Owner].pc = "push_link"
    /\ tc' = [tc EXCEPT !.elts[cth[Owner].d].next = cth[Owner].d2]
    /\ cth' = [cth EXCEPT ![Owner].pc = "push_new"]
    /\ UNCHANGED <<tcPushes, tcPops, tcLast, cOps, aborted, abortAt, ringVars, poolVars>>

\* pushHead, line 180: d2.pushHead(val), its result dropped.
RacePushNew ==
    /\ cth[Owner].pc = "push_new"
    /\ LET d2 == cth[Owner].d2
           r == dqPushHead(tc.elts[d2].dq, cth[Owner].val)
       IN  /\ tc' = [tc EXCEPT !.elts[d2].dq = r.d]
           /\ cth' = ChainReturned(Owner, "pushHead", cth[Owner].val, r.panic = "", r.panic)
    /\ UNCHANGED <<tcPushes, tcPops, tcLast, cOps, aborted, abortAt, ringVars, poolVars>>

\* The owner calls PopHead (lines 265-267, 183-193).
RacePopHead ==
    /\ cth[Owner].pc = "idle" /\ cOps < MaxRaceOps
    /\ LET r == chPopHead(tc)
       IN  /\ tc' = r.c
           /\ cth' = ChainReturned(Owner, "popHead", r.val, r.ok, r.panic)
    /\ cOps' = cOps + 1
    /\ UNCHANGED <<tcPushes, tcPops, tcLast, aborted, abortAt, ringVars, poolVars>>

\* A stealer calls PopTail (lines 269-271).
RaceCallPopTail(t) ==
    /\ cth[t].pc = "idle" /\ cOps < MaxRaceOps
    /\ cth' = [cth EXCEPT ![t].pc = "popt_tail", ![t].panic = ""]
    /\ cOps' = cOps + 1
    /\ UNCHANGED <<tc, tcPushes, tcPops, tcLast, aborted, abortAt, ringVars, poolVars>>

\* popTail, lines 197-200: d := c.tail.Load(); nil returns (zero, false).
RacePopTailLoad(t) ==
    /\ cth[t].pc = "popt_tail"
    /\ cth' = IF tc.tail = NoElt
              THEN ChainReturned(t, "popTail", Nil, FALSE, "")
              ELSE [cth EXCEPT ![t].pc = "popt_next", ![t].d = tc.tail]
    /\ UNCHANGED <<tc, tcPushes, tcPops, tcLast, cOps, aborted, abortAt, ringVars, poolVars>>

\* popTail, line 202: d2 := d.next.Load().
RacePopTailNext(t) ==
    /\ cth[t].pc = "popt_next"
    /\ cth' = [cth EXCEPT ![t].pc = "popt_pop",
                          ![t].d2 = tc.elts[cth[t].d].next,
                          ![t].wasTail = (tc.tail = cth[t].d)]
    /\ UNCHANGED <<tc, tcPushes, tcPops, tcLast, cOps, aborted, abortAt, ringVars, poolVars>>

\* popTail, lines 203-208: d.popTail(); a value taken ends the call (in this
\* code by the panic of line 136); an empty d with no d2 returns (zero, false).
RacePopTailPop(t) ==
    /\ cth[t].pc = "popt_pop"
    /\ LET d == cth[t].d
           r == dqPopTail(tc.elts[d].dq)
       IN  /\ tc' = [tc EXCEPT !.elts[d].dq = r.d]
           /\ cth' = IF r.panic # "" \/ r.ok
                     THEN ChainReturned(t, "popTail", r.val, r.ok, r.panic)
                     ELSE IF cth[t].d2 = NoElt
                     THEN ChainReturned(t, "popTail", Nil, FALSE, "")
                     ELSE [cth EXCEPT ![t].pc = "popt_cas"]
    /\ UNCHANGED <<tcPushes, tcPops, tcLast, cOps, aborted, abortAt, ringVars, poolVars>>

\* popTail, lines 210 and 213: c.tail.CompareAndSwap(d, d2); a failed CAS goes
\* on with d = d2.
RacePopTailCAS(t) ==
    /\ cth[t].pc = "popt_cas"
    /\ IF casSucceeds(tc.tail, cth[t].d)
       THEN /\ tc' = [tc EXCEPT !.tail = cth[t].d2]
            /\ cth' = [cth EXCEPT ![t].pc = "popt_prev"]
       ELSE /\ cth' = [cth EXCEPT ![t].pc = "popt_next", ![t].d = cth[t].d2,
                                  ![t].d2 = NoElt]
            /\ UNCHANGED tc
    /\ UNCHANGED <<tcPushes, tcPops, tcLast, cOps, aborted, abortAt, ringVars, poolVars>>

\* popTail, lines 211 and 213: d2.prev.Store(nil); d = d2.
RacePopTailPrev(t) ==
    /\ cth[t].pc = "popt_prev"
    /\ tc' = [tc EXCEPT !.elts[cth[t].d2].prev = NoElt]
    /\ cth' = [cth EXCEPT ![t].pc = "popt_next", ![t].d = cth[t].d2,
                          ![t].d2 = NoElt]
    /\ UNCHANGED <<tcPushes, tcPops, tcLast, cOps, aborted, abortAt, ringVars, poolVars>>

NextChainRace ==
    \/ \E val \in {tcPushes + 1, Nil} : RaceCallPush(val)
    \/ RacePushLoad
    \/ RacePushTry
    \/ RacePushGrow
    \/ RacePushLink
    \/ RacePushNew
    \/ RacePopHead
    \/ \E t \in Stealers : RaceCallPopTail(t)
    \/ \E t \in Stealers : RacePopTailLoad(t)
    \/ \E t \in Stealers : RacePopTailNext(t)
    \/ \E t \in Stealers : RacePopTailPop(t)
    \/ \E t \in Stealers : RacePopTailCAS(t)
    \/ \E t \in Stealers : RacePopTailPrev(t)

\* ------------------------------------------------------------ the Pool
\* A worker is a P with one goroutine making calls on it; its pid is its index.
Procs == 0..(GOMAXPROCS - 1)

NoOwner == 0 - 1

\* A nil array pointer, and make([]poolLocal[T], size).
NoArray == <<>>
NewLocal == [private |-> Nil, shared |-> EmptyChain]
MakeLocals(size) == [i \in 1..size |-> NewLocal]

EmptyPool == [local |-> NoArray, localSize |-> 0, victim |-> NoArray, victimSize |-> 0]

\* The address of the Pool, and the address of the receiver variable p of
\* pinSlow, which holds that address.
PoolAddr == "p"
RecvVarAddr == "&p"

\* pinSlow, line 224: allPools = append(allPools, (*Pool[any])(unsafe.Pointer(&p)))
RegisteredAddr == RecvVarAddr

\* p.New(): the factory of the spec's scenario returns 0; "make" returns an
\* object that was never Put.
NewResult(kind) == IF kind = "zero" THEN Nil ELSE 0 - 1

\* runtime_procPin / runtime_procUnpin on the worker's pin count (m.locks).
procPin(n) == n + 1
procUnpin(n) == n - 1

IdleWorker == [pc |-> "idle", op |-> "none", x |-> Nil, pin |-> 0, i |-> 0,
               size |-> 0, src |-> "", alone |-> TRUE, empty |-> TRUE,
               calls |-> 0, at |-> "", held |-> 0]

ArrayValues(arr) ==
    UNION {({arr[i].private} \ {Nil}) \cup ChainValues(arr[i].shared) : i \in 1..Len(arr)}

\* Values held by the current and by the victim generation.
CurrentValues == ArrayValues(pool.local)
VictimValues == IF pool.victimSize = 0 THEN {} ELSE ArrayValues(pool.victim)
PoolHoldsNothing == CurrentValues = {} /\ VictimValues = {}

Quiet == \A w \in Procs : wk[w].pc = "idle"

\* A call of worker w has returned or panicked: the record kept of it.
Event(w, val, src) ==
    [op |-> wk[w].op, w |-> w, val |-> val, src |-> src,
     alone |-> wk[w].alone, empty |-> wk[w].empty]

\* Worker w starts a call: every call in flight now overlaps another.
Started(w, op, x) ==
    [v \in Procs |->
        IF v = w
        THEN [IdleWorker EXCEPT !.op = op, !.x = x, !.pin = wk[w].pin,
                                !.held = wk[w].held,
                                !.calls = wk[w].calls + 1,
                                !.alone = \A u \in Procs \ {w} : wk[u].pc = "idle",
                                !.empty = PoolHoldsNothing]
        ELSE IF wk[v].pc # "idle" THEN [wk[v] EXCEPT !.alone = FALSE]
        ELSE wk[v]]

\* A fatal error of worker w at line `at` (or none, at = ""), in the pool.
PoolAbort(w, at) ==
    /\ Abort(at)
    /\ hist' = IF at # "" THEN Append(hist, Event(w, Nil, "panic")) ELSE hist

\* Worker w after its caller has recovered a panic of its Put or Get: the
\* call is over without having returned, and the unpin of line 113 or 144 was
\* skipped, so the worker keeps the pin of the call; its count outside the
\* pool's calls (held) is from now on the count it has.
Recovered(w) == [wk EXCEPT ![w].pc = "idle", ![w].held = wk[w].pin]

\* A run-time panic of worker w at line `at` inside Put or Get.  Under a pin
\* (m.locks # 0) gopanic throws "panic holding locks" and the process dies.
\* With the count at 0 (the caller had made one ProcUnpin more than ProcPin,
\* so that the pool's pin brought the count to 0) it is an ordinary panic:
\* the process dies unless the caller recovers it.
PoolPanic(w, at) ==
    \E dies \in BOOLEAN :
        /\ wk[w].pin # 0 => dies
        /\ Abort(IF dies THEN at ELSE "")
        /\ hist' = Append(hist, Event(w, Nil, "panic"))
        /\ wk' = IF dies THEN wk ELSE Recovered(w)

\* Put, lines 94-96: a zero x returns before anything else happens.
PutReturnsEarly(x) == isNil(x)

\* The record of a Put by worker w that ends where it starts, at line 94.
PutEvent(w, x, src) ==
    [op |-> "Put", w |-> w, val |-> x, src |-> src,
     alone |-> Started(w, "Put", x)[w].alone,
     empty |-> PoolHoldsNothing]

\* Put(x) is called by worker w.  Line 94 calls isNil(x) before anything
\* else.  With an interface T and x nil it panics (line 36), before any pin
\* of the pool's: a caller that holds no pin can recover the panic and go on,
\* or not, and the process dies; under a pin of the caller's the panic is
\* fatal.
PutCall(w, x, budget) ==
    /\ ~aborted /\ wk[w].pc = "idle" /\ nOps < budget
    /\ nOps' = nOps + 1
    /\ nextVal' = IF x = Nil THEN nextVal ELSE nextVal + 1
    /\ IF isNilPanics(x)
       THEN \E dies \in BOOLEAN :
               /\ wk[w].pin # 0 => dies
               /\ wk' = [Started(w, "Put", x) EXCEPT ![w].pc = "idle"]
               /\ hist' = Append(hist, PutEvent(w, x, "panic"))
               /\ Abort(IF dies THEN "part_002:36" ELSE "")
       ELSE IF PutReturnsEarly(x)
       THEN /\ wk' = [Started(w, "Put", x) EXCEPT ![w].pc = "idle"]
            /\ hist' = Append(hist, PutEvent(w, x, ""))
            /\ Abort("")
       ELSE /\ wk' = [Started(w, "Put", x) EXCEPT ![w].pc = "pin"]
            /\ UNCHANGED hist
            /\ Abort("")
    /\ UNCHANGED <<pool, New, T, nPins, allPools, oldPools, mu, corrupt, nCleanups,
                   chainVars, ringVars>>

\* Get() is called by worker w.
GetCall(w, budget) ==
    /\ ~aborted /\ wk[w].pc = "idle" /\ nOps < budget
    /\ nOps' = nOps + 1
    /\ wk' = [Started(w, "Get", Nil) EXCEPT ![w].pc = "pin"]
    /\ UNCHANGED <<pool, New, T, nPins, allPools, oldPools, mu, corrupt, nextVal, nCleanups,
                   hist, aborted, abortAt, chainVars, ringVars>>

\* The exported ProcPin() (part_000, lines 25-26), called by worker w between
\* its pool calls: runtime.procPin, one more pin on the worker.  held counts
\* the pins the caller has taken this way and not yet given back.
ProcPinCall(w, budget) ==
    /\ ~aborted /\ wk[w].pc = "idle" /\ nPins < budget
    /\ nPins' = nPins + 1
    /\ wk' = [wk EXCEPT ![w].pin = procPin(@), ![w].held = @ + 1]
    /\ UNCHANGED <<pool, New, T, allPools, oldPools, mu, corrupt, nextVal, nOps,
                   nCleanups, hist, aborted, abortAt, chainVars, ringVars>>

\* The exported ProcUnpin() (part_000, lines 30-31), called by worker w
\* between its pool calls: runtime.procUnpin, one pin less.  Nothing checks
\* that the worker holds a pin: without one the count (m.locks) goes below
\* zero.
ProcUnpinCall(w, budget) ==
    /\ ~aborted /\ wk[w].pc = "idle" /\ nPins < budget
    /\ nPins' = nPins + 1
    /\ wk' = [wk EXCEPT ![w].pin = procUnpin(@), ![w].held = @ - 1]
    /\ UNCHANGED <<pool, New, T, allPools, oldPools, mu, corrupt, nextVal, nOps,
                   nCleanups, hist, aborted, abortAt, chainVars, ringVars>>

\* With a pin count below zero the Go runtime throws ("lock count") the next
\* time it releases one of its own locks on that thread, which can be at any
\* moment or never; the throw is fatal, and no outcome of a pool call.
LockCountThrow(w) ==
    /\ ~aborted /\ wk[w].pin < 0
    /\ Abort("part_000:31")
    /\ UNCHANGED <<pool, New, T, nPins, allPools, oldPools, mu, corrupt, wk, nextVal, nOps,
                   nCleanups, hist, chainVars, ringVars>>

\* Pid() (part_000, lines 34-38): pin, unpin, return the id; the worker has
\* as many pins afterwards as before.
PidCall(w, budget) ==
    /\ ~aborted /\ wk[w].pc = "idle" /\ nOps < budget
    /\ nOps' = nOps + 1
    /\ wk' = [wk EXCEPT ![w].pin = procUnpin(procPin(@))]
    /\ UNCHANGED <<pool, New, T, nPins, allPools, oldPools, mu, corrupt, nextVal, nCleanups,
                   hist, aborted, abortAt, chainVars, ringVars>>

\* The record of a call made on a nil *Pool.
NilEvent(w, op, x, src) ==
    [op |-> op, w |-> w, val |-> x, src |-> src,
     alone |-> \A u \in Procs \ {w} : wk[u].pc = "idle",
     empty |-> PoolHoldsNothing]

\* Put(x) or Get() on a nil *Pool.  Put returns at once for a zero x (lines
\* 94-96), or panics in isNil (line 36); every other call reaches pin(),
\* which panics with "pool is nil" (lines 199-202) before it pins.  A caller
\* that holds no pin can recover the panic and go on, or not, and the process
\* dies; under a pin of the caller's the panic is fatal.
NilPoolCall(w, op, x, dies, budget) ==
    /\ ~aborted /\ wk[w].pc = "idle" /\ nOps < budget
    /\ op = "nilGet" => x = Nil
    /\ nOps' = nOps + 1
    /\ IF op = "nilPut" /\ ~isNilPanics(x) /\ PutReturnsEarly(x)
       THEN /\ ~dies
            /\ hist' = Append(hist, NilEvent(w, op, x, ""))
            /\ Abort("")
       ELSE /\ wk[w].pin # 0 => dies
            /\ hist' = Append(hist, NilEvent(w, op, Nil, "panic"))
            /\ Abort(IF ~dies THEN ""
                     ELSE IF op = "nilPut" /\ isNilPanics(x) THEN "part_002:36"
                     ELSE "part_002:200")
    /\ UNCHANGED <<pool, wk, New, T, nPins, allPools, oldPools, mu, corrupt, nextVal,
                   nCleanups, chainVars, ringVars>>

\* The calls a worker makes beside Put and Get on the pool.
OutsideCall(w, budget) ==
    \/ ProcPinCall(w, MaxPinOps)
    \/ ProcUnpinCall(w, MaxPinOps)
    \/ LockCountThrow(w)
    \/ PidCall(w, budget)
    \/ \E op \in {"nilPut", "nilGet"} : \E x \in {1, Nil} : \E dies \in BOOLEAN :
          NilPoolCall(w, op, x, dies, budget)

\* Where a call continues once pin() has returned its poolLocal.
AfterPin(w) == IF wk[w].op = "Put" THEN "put_body" ELSE "get_fast"

\* pin, lines 203-209, on the pool, which is not nil: pin, then the fast check
\* pid < localSize.
Pin(w) ==
    /\ ~aborted /\ wk[w].pc = "pin"
    /\ wk' = [wk EXCEPT ![w].pin = procPin(@),
                        ![w].pc = IF w < pool.localSize THEN AfterPin(w)
                                  ELSE "pinSlow_unpin"]
    /\ UNCHANGED <<pool, New, T, nPins, allPools, oldPools, mu, corrupt, nextVal, nOps,
                   nCleanups, hist, aborted, abortAt, chainVars, ringVars>>

\* pinSlow, line 213: unpin before taking the mutex.
PinSlowUnpin(w) ==
    /\ ~aborted /\ wk[w].pc = "pinSlow_unpin"
    /\ wk' = [wk EXCEPT ![w].pin = procUnpin(@), ![w].pc = "pinSlow_lock"]
    /\ UNCHANGED <<pool, New, T, nPins, allPools, oldPools, mu, corrupt, nextVal, nOps,
                   nCleanups, hist, aborted, abortAt, chainVars, ringVars>>

\* pinSlow, lines 214-222: lock, pin again, re-check under the lock; the
\* deferred Unlock runs when pinSlow returns.  While another worker holds the
\* mutex, Lock waits.  A worker with no pin waits parked, and takes the mutex
\* once it is free.  A worker whose pin count is not zero after the unpin of
\* line 213 (its caller holds pins of its own) can take the mutex if it comes
\* free while Lock still spins; when Lock parks it, the scheduler throws
\* ("schedule: holding locks"), which is fatal.
PinSlowLock(w) ==
    /\ ~aborted /\ wk[w].pc = "pinSlow_lock"
    /\ \/ /\ mu = NoOwner
          /\ IF w < pool.localSize
             THEN /\ wk' = [wk EXCEPT ![w].pin = procPin(@), ![w].pc = AfterPin(w)]
                  /\ UNCHANGED mu
             ELSE /\ wk' = [wk EXCEPT ![w].pin = procPin(@), ![w].pc = "pinSlow_alloc"]
                  /\ mu' = w
          /\ UNCHANGED <<hist, aborted, abortAt>>
       \/ /\ mu # NoOwner /\ wk[w].pin # 0
          /\ PoolAbort(w, "part_002:214")
          /\ UNCHANGED <<wk, mu>>
    /\ UNCHANGED <<pool, New, T, nPins, allPools, oldPools, corrupt, nextVal, nOps,
                   nCleanups, chainVars, ringVars>>

\* pinSlow, lines 223-228: register on first allocation, allocate the local
\* array and store its pointer.
PinSlowAlloc(w) ==
    /\ ~aborted /\ wk[w].pc = "pinSlow_alloc"
    /\ allPools' = IF pool.local = NoArray THEN Append(allPools, RegisteredAddr)
                   ELSE allPools
    /\ pool' = [pool EXCEPT !.local = MakeLocals(GOMAXPROCS)]
    /\ wk' = [wk EXCEPT ![w].pc = "pinSlow_size"]
    /\ UNCHANGED <<New, T, nPins, oldPools, mu, corrupt, nextVal, nOps, nCleanups, hist,
                   aborted, abortAt, chainVars, ringVars>>

\* pinSlow, lines 229-231: store localSize, return &local[pid], unlock.
PinSlowSize(w) ==
    /\ ~aborted /\ wk[w].pc = "pinSlow_size"
    /\ pool' = [pool EXCEPT !.localSize = GOMAXPROCS]
    /\ mu' = NoOwner
    /\ wk' = [wk EXCEPT ![w].pc = AfterPin(w)]
    /\ UNCHANGED <<New, T, nPins, allPools, oldPools, corrupt, nextVal, nOps, nCleanups,
                   hist, aborted, abortAt, chainVars, ringVars>>

\* Put, lines 108-112: x is known to be non-zero here, so the test isNil(x)
\* sends every value to the chain; the private slot is written only with zero.
\* A store of pushHead that spills past the end of a ring (pool_queue.go:71,
\* interface T) writes into memory that is not the ring's: undefined
\* behaviour, whose outcomes are a fault or a silent write.
PutBody(w) ==
    /\ ~aborted /\ wk[w].pc = "put_body"
    /\ LET x == wk[w].x
           r == chPushHead(pool.local[w + 1].shared, x)
           spill == r.panic = "pool_queue.go:71"
       IN  IF isNil(x)
           THEN /\ pool' = [pool EXCEPT !.local[w + 1].private = x]
                /\ PoolAbort(w, "")
                /\ UNCHANGED corrupt
           ELSE /\ pool' = [pool EXCEPT !.local[w + 1].shared = r.c]
                /\ corrupt' = (corrupt \/ spill)
                /\ \E fault \in BOOLEAN :
                      /\ ~spill => fault
                      /\ PoolAbort(w, IF fault THEN r.panic ELSE "")
    /\ wk' = [wk EXCEPT ![w].pc = "put_unpin"]
    /\ UNCHANGED <<New, T, nPins, allPools, oldPools, mu, nextVal, nOps, nCleanups,
                   chainVars, ringVars>>

\* Put, line 113: unpin and return.
PutUnpin(w) ==
    /\ ~aborted /\ wk[w].pc = "put_unpin"
    /\ wk' = [wk EXCEPT ![w].pin = procUnpin(@), ![w].pc = "idle"]
    /\ hist' = Append(hist, Event(w, wk[w].x, ""))
    /\ UNCHANGED <<pool, New, T, nPins, allPools, oldPools, mu, corrupt, nextVal, nOps,
                   nCleanups, aborted, abortAt, chainVars, ringVars>>

\* Get, lines 135-143 and getSlow, lines 160-161: take the private slot, else
\* pop the own chain's head, else enter the slow path.  The test of line 138
\* is isNil(x) on what the private slot held: with an interface T and an
\* empty private slot it panics (part_002:36), in the pinned section.
GetFast(w) ==
    /\ ~aborted /\ wk[w].pc = "get_fast"
    /\ LET l == pool.local[w + 1]
           r == chPopHead(l.shared)
       IN  IF isNilPanics(l.private)
           THEN /\ pool' = [pool EXCEPT !.local[w + 1].private = Nil]
                /\ PoolPanic(w, "part_002:36")
           ELSE IF ~isNil(l.private)
           THEN /\ pool' = [pool EXCEPT !.local[w + 1].private = Nil]
                /\ wk' = [wk EXCEPT ![w].x = l.private, ![w].src = "private",
                                    ![w].pc = "get_unpin"]
                /\ PoolAbort(w, "")
           ELSE /\ pool' = [pool EXCEPT !.local[w + 1].shared = r.c]
                /\ IF r.panic = "pool_queue.go:101"
                   THEN \/ PoolAbort(w, r.panic) /\ UNCHANGED wk
                        \/ \E g \in 1..nextVal :
                              /\ PoolAbort(w, "")
                              /\ wk' = [wk EXCEPT ![w].x = g, ![w].src = "head",
                                                  ![w].pc = "get_unpin"]
                   ELSE IF r.panic # "" THEN PoolPanic(w, r.panic)
                   ELSE /\ PoolAbort(w, "")
                        /\ wk' = IF ~isNil(r.val)
                                 THEN [wk EXCEPT ![w].x = r.val, ![w].src = "head",
                                                 ![w].pc = "get_unpin"]
                                 ELSE [wk EXCEPT ![w].size = pool.localSize,
                                                 ![w].i = 0,
                                                 ![w].pc = "getSlow_scan"]
    /\ UNCHANGED <<New, T, nPins, allPools, oldPools, mu, corrupt, nextVal, nOps, nCleanups,
                   chainVars, ringVars>>

\* getSlow, lines 163-168: one iteration of the scan of the current
\* generation, popTail on local[(pid+i+1) % size].  A popTail that wins the CAS
\* of pool_queue.go:124 has moved the tail; its slot read and the store that
\* panics come later (PopTailClear), and other workers run in between.
GetSlowScan(w) ==
    /\ ~aborted /\ wk[w].pc = "getSlow_scan"
    /\ LET k == ((w + wk[w].i + 1) % wk[w].size) + 1
           r == chPopTail(pool.local[k].shared)
       IN  IF wk[w].i >= wk[w].size
           THEN /\ wk' = [wk EXCEPT ![w].pc = "getSlow_victim"]
                /\ PoolAbort(w, "")
                /\ UNCHANGED pool
           ELSE /\ pool' = [pool EXCEPT !.local[k].shared = r.c]
                /\ PoolAbort(w, "")
                /\ wk' = IF r.panic # ""
                         THEN [wk EXCEPT ![w].pc = "popTail_clear", ![w].at = r.panic]
                         ELSE IF ~isNil(r.val)
                         THEN [wk EXCEPT ![w].x = r.val, ![w].src = "steal",
                                         ![w].pc = "get_unpin"]
                         ELSE [wk EXCEPT ![w].i = @ + 1]
    /\ UNCHANGED <<New, T, nPins, allPools, oldPools, mu, corrupt, nextVal, nOps, nCleanups,
                   chainVars, ringVars>>

\* getSlow, lines 170-193, as a function of the pool: the victim's private
\* slot, then the victim scan.  `&x != nil` is always true, so the scan returns
\* whatever the first popTail gave, a value or zero, and line 190 is reached
\* only when the loop does not run.
getSlowVictim(pl, pid) ==
    LET size == pl.victimSize
        l == pl.victim[pid + 1]
        k == ((pid + 0) % size) + 1
        r == chPopTail(pl.victim[k].shared)
    IN  IF pid >= size
        THEN [pool |-> pl, x |-> Nil, src |-> "miss", panic |-> ""]
        ELSE IF ~isNil(l.private)
        THEN [pool |-> [pl EXCEPT !.victim[pid + 1].private = Nil],
              x |-> l.private, src |-> "victimPrivate", panic |-> ""]
        ELSE [pool |-> [pl EXCEPT !.victim[k].shared = r.c],
              x |-> r.val,
              src |-> IF isNil(r.val) THEN "miss" ELSE "victim",
              panic |-> r.panic]

GetSlowVictim(w) ==
    /\ ~aborted /\ wk[w].pc = "getSlow_victim"
    /\ LET r == getSlowVictim(pool, w)
       IN  /\ pool' = r.pool
           /\ PoolAbort(w, "")
           /\ wk' = IF r.panic # ""
                    THEN [wk EXCEPT ![w].pc = "popTail_clear", ![w].at = r.panic]
                    ELSE [wk EXCEPT ![w].x = r.x, ![w].src = r.src,
                                    ![w].pc = "get_unpin"]
    /\ UNCHANGED <<New, T, nPins, allPools, oldPools, mu, corrupt, nextVal, nOps, nCleanups,
                   chainVars, ringVars>>

\* poolDequeue.popTail, lines 131-137, in a worker whose popTail has won its
\* CAS: it reads the slot it claimed and stores through the nil slot pointer,
\* which panics (PoolPanic): the tail has moved, the slot is not cleared and
\* the Get does not return.  A read of line 131 that faults ends the call the
\* same way.
PopTailClear(w) ==
    /\ ~aborted /\ wk[w].pc = "popTail_clear"
    /\ PoolPanic(w, wk[w].at)
    /\ UNCHANGED <<pool, New, T, nPins, allPools, oldPools, mu, corrupt, nextVal, nOps,
                   nCleanups, chainVars, ringVars>>

\* A Get that goes on to the factory without the unpin of line 144.
GetUnpinForgotten(w) ==
    /\ ~aborted /\ wk[w].pc = "get_unpin"
    /\ wk' = [wk EXCEPT ![w].pc = "get_new"]
    /\ UNCHANGED <<pool, New, T, nPins, allPools, oldPools, mu, corrupt, nextVal, nOps,
                   nCleanups, hist, aborted, abortAt, chainVars, ringVars>>

\* Get, line 144: unpin.
GetUnpin(w) ==
    /\ ~aborted /\ wk[w].pc = "get_unpin"
    /\ wk' = [wk EXCEPT ![w].pin = procUnpin(@), ![w].pc = "get_new"]
    /\ UNCHANGED <<pool, New, T, nPins, allPools, oldPools, mu, corrupt, nextVal, nOps,
                   nCleanups, hist, aborted, abortAt, chainVars, ringVars>>

\* Get, lines 153-156: call the factory when x is zero and New is set; return.
GetReturn(w) ==
    /\ ~aborted /\ wk[w].pc = "get_new"
    /\ LET made == isNil(wk[w].x) /\ New # "nil"
           ret == IF made THEN NewResult(New) ELSE wk[w].x
           src == IF made THEN "new" ELSE wk[w].src
       IN  /\ wk' = [wk EXCEPT ![w].pc = "idle", ![w].x = ret, ![w].src = src]
           /\ hist' = Append(hist, Event(w, ret, src))
    /\ UNCHANGED <<pool, New, T, nPins, allPools, oldPools, mu, corrupt, nextVal, nOps,
                   nCleanups, aborted, abortAt, chainVars, ringVars>>

\* --------------------------------------------------------- poolCleanup
\* poolCleanup treats every registered address as a *Pool[any].  An address
\* that is the Pool's is read and written as the code says.  An address that
\* is not (the 8-byte receiver variable) is accessed 128 to 328 bytes past its
\* end: undefined behaviour, whose outcomes are a write into unrelated memory
\* (the Pool itself untouched) or a fault.
InRegistry(reg, addr) == \E i \in 1..Len(reg) : reg[i] = addr
OutOfBounds(reg) == \E i \in 1..Len(reg) : reg[i] # PoolAddr

\* lines 252-263 on the Pool.
cleanupPool(pl, old, all) ==
    LET dropped == IF InRegistry(old, PoolAddr)
                   THEN [pl EXCEPT !.victim = NoArray, !.victimSize = 0]
                   ELSE pl
    IN  IF InRegistry(all, PoolAddr)
        THEN [dropped EXCEPT !.victim = dropped.local, !.victimSize = dropped.localSize,
                             !.local = NoArray, !.localSize = 0]
        ELSE dropped

\* The world is stopped: no worker is in a pinned section.
WorldStopped == \A w \in Procs : wk[w].pin = 0

CleanupEvent(src) ==
    [op |-> "Cleanup", w |-> NoOwner, val |-> Nil, src |-> src,
     alone |-> Quiet, empty |-> PoolHoldsNothing]

MarkCleanup == [v \in Procs |->
                  IF wk[v].pc # "idle" THEN [wk[v] EXCEPT !.alone = FALSE] ELSE wk[v]]

\* poolCleanup runs to its end.
Cleanup ==
    /\ ~aborted /\ WorldStopped /\ nCleanups < MaxCleanups
    /\ pool' = cleanupPool(pool, oldPools, allPools)
    /\ corrupt' = (corrupt \/ OutOfBounds(oldPools) \/ OutOfBounds(allPools))
    /\ oldPools' = allPools
    /\ allPools' = <<>>
    /\ nCleanups' = nCleanups + 1
    /\ wk' = MarkCleanup
    /\ hist' = Append(hist, CleanupEvent(""))
    /\ UNCHANGED <<New, T, nPins, mu, nextVal, nOps, aborted, abortAt, chainVars, ringVars>>

\* poolCleanup faults on an out-of-bounds access.
CleanupFault ==
    /\ ~aborted /\ WorldStopped /\ nCleanups < MaxCleanups
    /\ OutOfBounds(oldPools) \/ OutOfBounds(allPools)
    /\ Abort(IF OutOfBounds(oldPools) THEN "part_002:253" ELSE "part_002:259")
    /\ nCleanups' = nCleanups + 1
    /\ hist' = Append(hist, CleanupEvent("panic"))
    /\ UNCHANGED <<pool, New, T, nPins, allPools, oldPools, mu, corrupt, wk, nextVal, nOps,
                   chainVars, ringVars>>

InitPool(types) ==
    /\ pool = EmptyPool
    /\ New \in {"nil", "zero", "make"}
    /\ T \in types
    /\ nPins = 0
    /\ allPools = <<>>
    /\ oldPools = <<>>
    /\ mu = NoOwner
    /\ corrupt = FALSE
    /\ wk = [w \in Procs |-> IdleWorker]
    /\ nextVal = 1
    /\ nOps = 0
    /\ nCleanups = 0
    /\ hist = <<>>

\* A new Pool[int]; a new Pool[int] or Pool[any].
InitPoolVars == InitPool({"int"})
InitTypedVars == InitPool({"int", "any"})

IdlePoolVars ==
    /\ pool = EmptyPool
    /\ New = "nil"
    /\ T = "int"
    /\ nPins = 0
    /\ allPools = <<>>
    /\ oldPools = <<>>
    /\ mu = NoOwner
    /\ corrupt = FALSE
    /\ wk = [w \in Procs |-> IdleWorker]
    /\ nextVal = 1
    /\ nOps = 0
    /\ nCleanups = 0
    /\ hist = <<>>

\* The steps of a worker's call short of a popTail that has won its CAS.
CallStep(w) ==
    \/ Pin(w)
    \/ PinSlowUnpin(w)
    \/ PinSlowLock(w)
    \/ PinSlowAlloc(w)
    \/ PinSlowSize(w)
    \/ PutBody(w)
    \/ PutUnpin(w)
    \/ GetFast(w)
    \/ GetSlowScan(w)
    \/ GetSlowVictim(w)
    \/ GetUnpin(w)
    \/ GetReturn(w)

WorkerStep(w) ==
    \/ CallStep(w)
    \/ PopTailClear(w)

\* Any worker, any call, and the decay step.
Next ==
    \/ \E w \in Procs : \E x \in {nextVal, Nil} : PutCall(w, x, MaxOps)
    \/ \E w \in Procs : GetCall(w, MaxOps)
    \/ \E w \in Procs : OutsideCall(w, MaxOps)
    \/ \E w \in Procs : WorkerStep(w)
    \/ Cleanup
    \/ CleanupFault

\* One worker alone, values never zero, no decay step.  Alone, a worker calls
\* popTail only on chains that are empty (its own, once popHead has found it
\* without an element, and the other P's, which nobody fills), so no popTail
\* of its wins a CAS and CallStep is all it does.
Solo == 0

NextSingle ==
    \/ PutCall(Solo, nextVal, MaxSoloOps)
    \/ GetCall(Solo, MaxSoloOps)
    \/ CallStep(Solo)

Init == aborted = FALSE /\ abortAt = "" /\ InitChainVars /\ IdleRingVars /\ InitPoolVars
InitRing == aborted = FALSE /\ abortAt = "" /\ IdlePoolVars /\ InitChainVars /\ InitRingVars
InitChain == aborted = FALSE /\ abortAt = "" /\ IdlePoolVars /\ InitChainVars /\ IdleRingVars

InitRingWrap == aborted = FALSE /\ abortAt = "" /\ IdlePoolVars /\ InitChainVars /\ InitRingWrapVars

SpecRing == InitRing /\ [][NextRing]_vars
SpecRingWrap == InitRingWrap /\ [][NextRingWrap]_vars
SpecChain == InitChain /\ [][NextChain]_vars
InitChainRace == aborted = FALSE /\ abortAt = "" /\ IdlePoolVars /\ InitRaceVars /\ IdleRingVars
SpecChainRace == InitChainRace /\ [][NextChainRace]_vars
Spec == Init /\ [][Next]_vars
InitTyped == aborted = FALSE /\ abortAt = "" /\ InitChainVars /\ IdleRingVars /\ InitTypedVars
SpecTyped == InitTyped /\ [][Next]_vars
SpecSingle == Init /\ [][NextSingle]_vars

\* The Go scheduler runs every runnable goroutine again and again: a worker
\* whose call can take a step, and stays able to, eventually takes it.
\* Put and Get calls by concurrent workers, without a decay step.
NextCalls ==
    \/ \E w \in Procs : \E x \in {nextVal, Nil} : PutCall(w, x, MaxOps)
    \/ \E w \in Procs : GetCall(w, MaxOps)
    \/ \E w \in Procs : OutsideCall(w, MaxOps)
    \/ \E w \in Procs : WorkerStep(w)

SpecCalls == Init /\ [][NextCalls]_vars
SpecFair == Init /\ [][NextCalls]_vars /\ \A w \in Procs : WF_vars(WorkerStep(w))

\* The pool never has a victim generation: pinSlow registers the address of
\* its receiver variable (part_002:224), not the pool, so poolCleanup never
\* moves the pool's local array to victim, and getSlow always leaves at lines
\* 177-179, before the victim scan.
NoVictimGeneration == pool.victimSize = 0 /\ pool.victim = NoArray

\* A Get of a Pool of an interface type never comes to a pop: the private
\* slot is never written, so the isNil(x) of line 138 is given the nil
\* interface and panics (part_002:36) before popHead is called.
AnyNeverPops ==
    T = "any" =>
        \A w \in Procs :
            wk[w].pc \notin {"getSlow_scan", "getSlow_victim", "popTail_clear",
                             "get_unpin", "get_new"}

\* ================================================================= claims
IsPut(e) == e.op = "Put" /\ e.val # Nil
IsGet(e) == e.op = "Get"
IsDecay(e) == e.op = "Cleanup" /\ e.src = "" /\ e.alone
Events == 1..Len(hist)

\* C1: k non-zero distinct values Put by one worker and then k Gets by that
\* worker, with nothing in between: no Get panics and the Gets return exactly
\* the k values.
C1_RoundTrip ==
    \A k \in Events, i \in Events :
        LET puts == i..(i + k - 1)
            gets == (i + k)..(i + 2 * k - 1)
        IN  ( /\ i + 2 * k - 1 <= Len(hist)
              /\ \A j \in puts : IsPut(hist[j])
              /\ \A j \in gets : IsGet(hist[j]) )
            => /\ \A j \in gets : hist[j].src # "panic"
               /\ {hist[j].val : j \in gets} = {hist[j].val : j \in puts}

\* C2: a Get called on a pool that holds no value in either generation
\* returns: the factory's result when New is set, the zero value when not.
C2_EmptyGetReturns ==
    \A i \in Events :
        (IsGet(hist[i]) /\ hist[i].empty /\ hist[i].alone)
        => /\ hist[i].src # "panic"
           /\ hist[i].val = (IF New = "nil" THEN Nil ELSE NewResult(New))

\* C3: worker a Puts X into an empty pool and then another worker b calls Get,
\* with nothing in between: b's Get returns X, taken by the slow-path scan.
C3_CrossWorkerSteal ==
    \A i \in Events :
        ( /\ i + 1 <= Len(hist)
          /\ IsPut(hist[i]) /\ hist[i].empty /\ hist[i].alone
          /\ IsGet(hist[i + 1]) /\ hist[i + 1].alone
          /\ hist[i + 1].w # hist[i].w )
        => /\ hist[i + 1].val = hist[i].val
           /\ hist[i + 1].src = "steal"

\* C4: a value Put into an empty pool, then exactly one decay step, then a Get
\* by the same worker: the Get returns the value from the victim generation.
C4_SurvivesOneDecay ==
    \A i \in Events :
        ( /\ i + 2 <= Len(hist)
          /\ IsPut(hist[i]) /\ hist[i].empty /\ hist[i].alone
          /\ IsDecay(hist[i + 1])
          /\ IsGet(hist[i + 2]) /\ hist[i + 2].alone
          /\ hist[i + 2].w = hist[i].w )
        => /\ hist[i + 2].val = hist[i].val
           /\ hist[i + 2].src \in {"victim", "victimPrivate"}

\* C5: a value Put into an empty pool and then two consecutive decay steps:
\* both generations are empty afterwards and a Get returns only the factory's
\* result or the zero value.
C5_GoneAfterTwoDecays ==
    \A i \in Events :
        ( /\ i + 2 <= Len(hist)
          /\ IsPut(hist[i]) /\ hist[i].empty /\ hist[i].alone
          /\ IsDecay(hist[i + 1]) /\ IsDecay(hist[i + 2]) )
        => /\ (i + 2 = Len(hist) /\ Quiet) => PoolHoldsNothing
           /\ (i + 3 <= Len(hist) /\ IsGet(hist[i + 3]))
              => hist[i + 3].src \in {"new", "miss"}

NoDuplicates(seq) == \A i, j \in 1..Len(seq) : seq[i] = seq[j] => i = j

\* C6: concurrent popTail calls on a ring return every pushed value exactly
\* once: no popTail panics, no value is returned twice, and when the ring is
\* empty and no call is in flight the values returned are the values pushed.
C6_PopTailPartitions ==
    /\ abortAt \notin {"pool_queue.go:133", "pool_queue.go:136"}
    /\ NoDuplicates(rPopped)
    /\ ( /\ \A t \in Threads : rth[t].pc = "idle"
         /\ IsEmpty(ring.headTail) )
       => {rPopped[i] : i \in 1..Len(rPopped)} = rPushed

\* C7: Put of the zero value of T is a silent no-op: it returns at once,
\* without a panic, and changes nothing: not the pool's generations, not the
\* registry, not the mutex, not the pin count.
C7_PutZeroIsNoOp ==
    [][\A w \in Procs :
          ( /\ wk'[w].calls = wk[w].calls + 1
            /\ wk'[w].op = "Put"
            /\ wk'[w].x = Nil )
          => /\ wk'[w].pc = "idle"
             /\ wk'[w].pin = wk[w].pin
             /\ hist' = Append(hist, hist'[Len(hist')])
             /\ hist'[Len(hist')].src = ""
             /\ UNCHANGED <<pool, allPools, oldPools, mu, corrupt, aborted>>]_vars

\* C8 as stated: on every path through Put and Get the worker is unpinned
\* when the call returns, and it is unpinned when Get calls the factory New.
C8_Unpinned ==
    [][\A w \in Procs :
          /\ (wk[w].pc # "idle" /\ wk'[w].pc = "idle") => wk'[w].pin = 0
          /\ (wk[w].pc = "get_new" /\ wk'[w].pc = "idle" /\ wk'[w].src = "new")
                => wk[w].pin = 0]_vars

\* C8 as amended: the pins and unpins of Put and Get are balanced.  When its
\* call has returned, and when Get is about to call the factory, a worker
\* holds the pins it held when the call was made, those its caller took
\* itself with ProcPin and ProcUnpin (none, if the caller took none), and no
\* pin of that call; inside a call it holds at most one more.  (A call that
\* panics does not return: held follows the pin it leaves behind, Recovered.)
C8_PinBalanced ==
    \A w \in Procs :
        /\ wk[w].pin \in {wk[w].held, wk[w].held + 1}
        /\ wk[w].pc \in {"idle", "get_new"} => wk[w].pin = wk[w].held

\* C8 witness: a worker that had pinned itself with ProcPin has made a first
\* Get, through pinSlow and getSlow; the Get has called the factory and
\* returned, and the worker holds its own pin and no other.
C8_Witness ==
    \E w \in Procs :
        /\ wk[w].pc = "idle" /\ wk[w].held = 1 /\ wk[w].pin = 1
        /\ Len(hist) >= 1
        /\ IsGet(hist[Len(hist)]) /\ hist[Len(hist)].w = w
        /\ hist[Len(hist)].src = "new"

\* C9: pushHead on a ring of capacity N never panics and, when no popTail is
\* in the middle of taking a value, returns false exactly when the ring held N
\* values, (head - tail) mod 2^32 = N, and otherwise stores the value.
C9_PushFailsIffFull ==
    /\ abortAt # "pool_queue.go:69"
    /\ LET last == rth[Producer].last
       IN  (rth[Producer].pc = "idle" /\ last.op = "pushHead" /\ ~last.racing)
           => /\ last.ok <=> last.n < RingCap
              /\ last.ok => last.val \in DqValues(ring) \cup
                                         {rPopped[i] : i \in 1..Len(rPopped)}

Min(a, b) == IF a < b THEN a ELSE b

\* C10: pushHead on a chain always succeeds, and the chain's segments have
\* capacities initSize, 2*initSize, 4*initSize, ... capped at dequeueLimit,
\* oldest first.
C10_ChainGrowth ==
    /\ abortAt # "pool_queue.go:69"
    /\ tcLast.op = "pushHead" => tcLast.ok
    /\ \A i \in 1..Len(tc.elts) :
          /\ Len(tc.elts[i].dq.vals) = Min(initSize * 2 ^ (i - 1), dequeueLimit)
          /\ tc.elts[i].next = (IF i = Len(tc.elts) THEN NoElt ELSE i + 1)
    /\ tc.head = Len(tc.elts)

\* Where the process dies of what a caller did, not the pool: a call on a nil
\* pool, a Get or Put under a pin of the caller's that has to wait for the
\* mutex, a ProcUnpin without a pin.
CallerFaults == {"part_002:200", "part_002:214", "part_000:31"}

\* C11: under weak fairness every Put and Get call that has started
\* terminates: a worker that is in a call is eventually back outside it,
\* unless a caller has killed the process by a fault of its own.
C11_EveryCallTerminates ==
    \A w \in Procs :
        (wk[w].pc # "idle") ~> (wk[w].pc = "idle" \/ abortAt \in CallerFaults)

\* C12: the step of Put that stores a non-zero x puts it into the worker's
\* private slot when that slot is empty and leaves the chain alone; when the
\* slot is occupied it leaves the slot alone and pushes x onto the chain.
C12_PutFastPath ==
    [][\A w \in Procs :
          (wk[w].pc = "put_body" /\ wk'[w].pc = "put_unpin")
          => LET l == pool.local[w + 1]
                 l2 == pool'.local[w + 1]
             IN  IF isNil(l.private)
                 THEN l2.private = wk[w].x /\ l2.shared = l.shared
                 ELSE l2.private = l.private /\ wk[w].x \in ChainValues(l2.shared)]_vars

\* The slots of the live range [tail, head) of a dequeue.
LiveSlots(d) ==
    {SlotOf(d, U32Add(unpack(d.headTail).tail, k)) : k \in 0..(Span(d.headTail) - 1)}

\* No call on the ring is in progress: every thread is outside a call, or
\* its popTail has ended in the panic of line 136.
RingQuiet ==
    \A t \in Threads :
        \/ rth[t].pc = "idle"
        \/ abortAt = "pool_queue.go:136" /\ rth[t].pc = "popt_clear"

\* C14: when no call on the ring is in progress, every slot outside the live
\* range [tail, head) is empty: each pop has cleared the slot it took from.
C14_SlotsCleared ==
    RingQuiet => \A i \in 1..Len(ring.vals) :
                    i \notin LiveSlots(ring) => ring.vals[i] = Nil

\* Thread t has won the compare-and-swap of a popTail and read its value.
Took(t) == rth[t].pc = "popt_clear"

\* C15: no pushed value is taken by two pops: the values returned by popHead
\* and the values taken by popTail calls that won their compare-and-swap are
\* pairwise different, and each of them was pushed.
C15_OnePopPerValue ==
    /\ NoDuplicates(rPopped)
    /\ \A i \in 1..Len(rPopped) : rPopped[i] \in rPushed
    /\ \A t \in Threads :
          Took(t) => /\ rth[t].val \in rPushed
                     /\ \A i \in 1..Len(rPopped) : rPopped[i] # rth[t].val
                     /\ \A u \in Threads \ {t} : Took(u) => rth[u].val # rth[t].val

\* C15 witness: one value was in the ring, a popTail loaded headTail and a
\* popHead took the value first; the popTail's compare-and-swap failed and it
\* is about to find the ring empty.
C15_Witness ==
    /\ rOps = 3
    /\ IsEmpty(ring.headTail)
    /\ rth[Producer].last.op = "popHead" /\ rth[Producer].last.ok
    /\ \E t \in Consumers : rth[t].pc = "popt_load" /\ Span(rth[t].ptrs) = 1

\* The slot thread t claimed by the compare-and-swap of its popTail.
ClaimedSlot(t) == SlotOf(ring, unpack(rth[t].ptrs).tail)

\* C16: no step writes a value over a value: a slot that holds a value keeps
\* it until it is cleared.  In particular the slot a popTail has claimed is
\* not touched by any other thread, and the popTail reads from it the value
\* that was there when it won its compare-and-swap.
C16_NoReuseUnderPopTail ==
    [][/\ \A i \in 1..Len(ring.vals) :
             ring.vals[i] # Nil => ring'.vals[i] \in {ring.vals[i], Nil}
       /\ \A t \in Threads :
             rth[t].pc \in {"popt_read", "popt_clear"}
             => /\ ring'.vals[ClaimedSlot(t)] = ring.vals[ClaimedSlot(t)]
                /\ rth'[t].pc = "popt_clear" => rth'[t].val = ring.vals[ClaimedSlot(t)]]_vars

\* C16 witness: a popTail has claimed a slot and not cleared it, and a
\* pushHead that found the ring not full has met that slot and returned false.
C16_Witness ==
    /\ Claiming
    /\ rth[Producer].pc = "idle"
    /\ rth[Producer].last.op = "pushHead"
    /\ ~rth[Producer].last.ok
    /\ rth[Producer].last.racing
    /\ rth[Producer].last.n < RingCap

\* C17: in every reachable state of a ring of capacity N, (head - tail) mod
\* 2^32 is at most N; a pop that moved head below tail or tail above head
\* would make it 2^32 - 1.
C17_IndexInvariant == Span(ring.headTail) <= Len(ring.vals)

\* C17 witness: head and tail have both passed 2^32, tail with a PopTail of
\* this run whose caller recovered the panic, and the ring holds a value
\* pushed after head wrapped.
C17_Witness ==
    /\ unpack(ring.headTail).head[1] = 0
    /\ unpack(ring.headTail).tail[1] = 0
    /\ Span(ring.headTail) >= 1
    /\ \E t \in Consumers :
          /\ rth[t].pc = "idle"
          /\ rth[t].last.op = "popTail"
          /\ ~rth[t].last.ok
          /\ rth[t].last = [op |-> "popTail", val |-> Nil, ok |-> FALSE,
                            panic |-> "pool_queue.go:136"]

\* C18: a decay step that runs to its end with no call in progress turns the
\* current generation of the pool that registered itself (allPools is not
\* empty) into its victim generation and leaves it no current generation,
\* empties the victim generation of a pool that is only in the victim set,
\* empties the current set and makes the victim set the former current set.
C18_DecayStep ==
    [][(nCleanups' = nCleanups + 1 /\ Quiet /\ ~aborted')
       => /\ allPools # <<>>
             => pool' = [local |-> NoArray, localSize |-> 0,
                         victim |-> pool.local, victimSize |-> pool.localSize]
          /\ (allPools = <<>> /\ oldPools # <<>>)
             => pool' = [pool EXCEPT !.victim = NoArray, !.victimSize = 0]
          /\ allPools' = <<>>
          /\ oldPools' = allPools]_vars

\* C19: the pool is registered at most once; the local array is allocated
\* only when the pool has none; and a pool that has a current generation is
\* a member of the current registry set.
C19_LazyRegistration ==
    /\ [](/\ Len(allPools) <= 1
          /\ pool.local # NoArray => InRegistry(allPools, PoolAddr))
    /\ [][\A w \in Procs :
             (wk[w].pc = "pinSlow_alloc" /\ wk'[w].pc = "pinSlow_size")
             => pool.local = NoArray]_vars

\* Values a dequeue holds between its tail and its head.
Held(d) == {d.vals[i] : i \in LiveSlots(d)}

\* Elements the chain's tail has moved past: elements are allocated in
\* order, each linked as the next of the one before.
Passed(c) == IF c.tail = NoElt THEN {} ELSE 1..(c.tail - 1)

\* A popTail call of stealer t that returns (zero, false) with this step.
ReportsEmpty(t) ==
    /\ cth[t].pc \in {"popt_tail", "popt_pop"}
    /\ cth'[t].pc = "idle"
    /\ cth'[t].panic = ""

\* C20: (a) the chain's tail pointer only moves from an element to that
\* element's next one (or from nil to the first element); (b) an element the
\* tail has moved past holds no value between its tail and head and is never
\* changed again; (c) a popTail returns (zero, false) only when the chain has
\* no element, or the element it examined is empty, was the chain's tail when
\* the call loaded its next pointer, and that next pointer was nil.
C20_TailAdvanceLosesNothing ==
    [][/\ tc'.tail # tc.tail
          => IF tc.tail = NoElt THEN tc'.tail = 1
             ELSE tc'.tail # NoElt /\ tc'.tail = tc.elts[tc.tail].next
       /\ \A i \in Passed(tc) :
             /\ Held(tc.elts[i].dq) = {}
             /\ i \in Passed(tc')
             /\ tc'.elts[i].dq = tc.elts[i].dq
       /\ \A i \in Passed(tc') : Held(tc'.elts[i].dq) = {}
       /\ \A t \in Stealers :
             ReportsEmpty(t)
             => \/ cth[t].pc = "popt_tail" /\ tc.tail = NoElt
                \/ /\ cth[t].pc = "popt_pop"
                   /\ IsEmpty(tc.elts[cth[t].d].dq.headTail)
                   /\ cth[t].d2 = NoElt
                   /\ cth[t].wasTail]_vars

\* C20 happens: a stealer's CAS has just moved the tail past an element that
\* has a newer one, while another stealer's popTail has reported empty.
C20_Witness ==
    \E t \in Stealers :
        /\ cth[t].pc = "popt_prev"
        /\ tc.tail = cth[t].d2
        /\ cth[t].d \in Passed(tc)
        /\ \E u \in Stealers \ {t} :
              /\ cth[u].pc = "idle"
              /\ cth[u].last.op = "popTail"
              /\ cth[u].panic = ""

=============================================================================
